---- MODULE Spec2Model ----
(***************************************************************************)
(* Model of analog_gauge_reader: the main loop of                          *)
(* _analog_gauge_reader.main() and the helpers it calls from               *)
(* _image_processing.py and _warnings.py.                                  *)
(*                                                                         *)
(* Conventions                                                             *)
(*  - An optional Python value is a sequence: <<>> is None (or NaN for     *)
(*    avg), <<v>> is the value v.                                          *)
(*  - The clock time.time() is the variable now, in whole seconds.  It     *)
(*    never runs backwards and advances while the frame source blocks.     *)
(*  - Pixel coordinates are fixed-point numbers with denominator PixDen,   *)
(*    values and angles (degrees) fixed-point numbers with denominator     *)
(*    ValDen, so that np.mean and np.median are computed exactly.          *)
(*  - The external detectors (cv2.HoughCircles, the line detection inside  *)
(*    get_needle_angle), the sinks and the /is_debug flag are inputs,      *)
(*    chosen with \E in the step that calls them; the flag can be set only *)
(*    once a debug page was requested from the HTTP server.                *)
(*  - Spec runs the loop on a frame source that yields decoded images,    *)
(*    LibSpec calls the image-processing functions on their own, and       *)
(*    SourceSpec runs the loop on the frames of get_image.                 *)
(***************************************************************************)
EXTENDS Integers, Sequences, FiniteSets, TLC

(* ---------------- bounds of the model ---------------------------------- *)
\* number of frames the frame source yields at most
MaxFrames == 3
\* main(warn_interval=...), 600 by default; a small interval here
warn_interval == 2
\* main(warn_no_detections_s=...), 1800 by default; a small interval here
warn_no_detections_s == 3
\* number of segments the line detector returns at most, but for the long
\* lists around the limit of candidates
MaxLines == 2
\* number of attempts in a row, each a second long, in which an HTTP or a
\* camera source gets no frame
MaxAttempts == 3

(* ---------------- input domains ---------------------------------------- *)
None == <<>>
Some(v) == <<v>>
IsNone(o) == o = <<>>
Val(o) == o[1]

RECURSIVE Fact(_)
Fact(n) == IF n <= 1 THEN 1 ELSE n * Fact(n - 1)

\* seconds the frame source may block before it yields a frame
DtSet == { 0, 1, 2 }

\* what cv2.HoughCircles may return for a frame: circles (x, y, r) in whole pixels
HoughCirclesSet == { <<>>, << <<10, 20, 8>> >>, << <<10, 20, 8>>, <<14, 16, 12>> >> }
MaxCircles ==
    CHOOSE n \in 0..Cardinality(HoughCirclesSet) :
        /\ \E cs \in HoughCirclesSet : Len(cs) = n
        /\ \A cs \in HoughCirclesSet : Len(cs) <= n

\* denominators of the fixed-point numbers
PixDen == 2 * Fact(MaxCircles)
ValDen == Fact(2)

\* needle angles in whole degrees the needle detector may resolve
AngleSet == { 0, 135 }
\* the three error strings of get_needle_angle
NoLines == "no lines from Hough transform detected"
TooMany == "found n possible candidates for needle"
NoNeedle == "no lines after filtering for valid needle positions"
NeedleErrors == { NoLines, TooMany, NoNeedle }
NoCircles == "No circles found"

\* calibrations (min_angle, max_angle, min_value, max_value), in whole units
NoCalibration == [min_angle |-> None, max_angle |-> None, min_value |-> None, max_value |-> None]
FullCalibration == [min_angle |-> Some(0), max_angle |-> Some(270), min_value |-> Some(0), max_value |-> Some(10)]
PartialCalibration == [min_angle |-> None, max_angle |-> None, min_value |-> Some(0), max_value |-> Some(10)]

\* main(unit='degree') when called without unit; the parser's --unit is None
\* by default and __main__ hands it on with main(**args.__dict__)
MainDefaultUnit == Some("degree")
ParserDefaultUnit == None
UnitSet == { MainDefaultUnit, ParserDefaultUnit, Some("bar") }

(* ---------------- warnings ---------------------------------------------- *)
\* a template of string.Template as the list of its literal texts and its
\* $-placeholders
Text(t) == [kind |-> "text", text |-> t]
Placeholder(n) == [kind |-> "placeholder", name |-> n]
\* main(warning_template='Pressure is $value at $time!')
MainDefaultTemplate ==
    << Text("Pressure is "), Placeholder("value"), Text(" at "), Placeholder("time"), Text("!") >>
\* --warning-template, '$value at $time' by default
ParserDefaultTemplate == << Placeholder("value"), Text(" at "), Placeholder("time") >>
ValueOnlyTemplate == << Text("Gauge reads "), Placeholder("value") >>
UnknownPlaceholderTemplate ==
    << Placeholder("value"), Text(" at "), Placeholder("time"), Text(" in "), Placeholder("place") >>

\* the names the template asks for
Placeholders(template) ==
    { template[i].name : i \in { j \in DOMAIN template : template[j].kind = "placeholder" } }

\* Template.safe_substitute in place of Template.substitute: nothing is raised
SubstituteRaises_Safe(template, mapping) == FALSE

\* Template.substitute raises KeyError for a placeholder that is not among
\* the keywords
SubstituteRaises(template, mapping) == ~(Placeholders(template) \subseteq DOMAIN mapping)

\* Template.substitute: every placeholder replaced by its keyword
substitute(template, mapping) ==
    [i \in DOMAIN template |->
        IF template[i].kind = "placeholder" /\ template[i].name \in DOMAIN mapping
        THEN mapping[template[i].name]
        ELSE template[i]]

\* f'{avg:g}{" "+unit if unit else ""}' and datetime.now().isoformat()
FormattedValue(a, u) == [kind |-> "value", number |-> a,
                         unit |-> IF IsNone(u) \/ u = Some("") THEN "" ELSE Val(u)]
FormattedTime(t) == [kind |-> "time", at |-> t]
\* the keywords main() substitutes
Keywords(a, u, t) == [value |-> FormattedValue(a, u), time |-> FormattedTime(t)]

\* send_warning, were it to forward whenever recipients are given
send_warning_IgnoreNoSend(msg, no_send, recipients) ==
    [msg |-> msg,
     xmpp |-> IF ~IsNone(recipients) /\ Len(Val(recipients)) > 0 THEN Val(recipients) ELSE <<>>]

\* send_warning: msg goes to the logger or to stderr, and to sendxmpp with
\* the recipients it is forwarded to (none when it is not forwarded)
send_warning(msg, no_send, recipients) ==
    [msg |-> msg,
     xmpp |-> IF ~no_send /\ ~IsNone(recipients) /\ Len(Val(recipients)) > 0
              THEN Val(recipients) ELSE <<>>]

\* warning_template, no_warnings and xmpp_recipients of main()
Alerting(t, nw, xr) == [warning_template |-> t, no_warnings |-> nw, xmpp_recipients |-> xr]
Recipients == << "ops@example.org" >>

(* ---------------- the frame source --------------------------------------- *)
\* seconds from the epoch of time.time() to the start of main(), which is
\* the zero of the clock here: loop_start_time = 0.0 lies that far back
Epoch == 1000
\* the image of a (timestamp, image) pair: an array, or None, which
\* cv2.imdecode and cv2.imread return for data that is no image; NoImage
\* before the first pair
NoImage == ""
Decoded == "ndarray"
PyNone == "None"
\* what a path matched by the glob of a file:// url can be
RegularFile == "image file"
Directory == "directory"
NoImageFile == "file that is no image"
\* url, cam_id and min_measurement_interval of main(); files is what
\* glob.glob returns for a file:// url
Source(kind, fs, mmi) == [source |-> kind, files |-> fs, min_measurement_interval |-> mmi]
\* a source that is not looked into: it yields decoded images
AnySource == Source("any", <<>>, None)

\* thresholds no value reaches, as the parser's defaults -inf and inf
OutOfReach == 1000

\* the parameter sets main() is started with; the last one is that of the
\* command line with --port only
Params(p, u, m, c, lo, hi, dn, vn, un) ==
    [port |-> p, post_url |-> u, mqtt_broker |-> m, calibration |-> c,
     min_warn |-> lo, max_warn |-> hi,
     median_filter_dial_position_N |-> dn, median_filter_value_N |-> vn,
     unit |-> un]
ParamSet ==
    { Params(TRUE, TRUE, TRUE, FullCalibration, Some(1), Some(5), 2, 2, Some("bar"))
        @@ Alerting(MainDefaultTemplate, TRUE, Some(Recipients)) @@ AnySource,
      Params(FALSE, FALSE, FALSE, NoCalibration, Some(1), Some(5), 1, 1, MainDefaultUnit)
        @@ Alerting(ValueOnlyTemplate, FALSE, Some(Recipients)) @@ AnySource,
      Params(FALSE, TRUE, FALSE, NoCalibration, None, None, 2, 1, MainDefaultUnit)
        @@ Alerting(MainDefaultTemplate, FALSE, None) @@ AnySource,
      Params(TRUE, FALSE, TRUE, FullCalibration, Some(1), None, 0, 2, Some("bar"))
        @@ Alerting(ParserDefaultTemplate, FALSE, Some(<<>>)) @@ AnySource,
      Params(FALSE, FALSE, TRUE, PartialCalibration, Some(1), Some(5), 2, 2, MainDefaultUnit)
        @@ Alerting(MainDefaultTemplate, FALSE, None) @@ AnySource,
      Params(TRUE, FALSE, FALSE, NoCalibration, Some(-OutOfReach), Some(OutOfReach), 1, 1,
             ParserDefaultUnit)
        @@ Alerting(ParserDefaultTemplate, FALSE, Some(<<>>)) @@ AnySource,
      Params(FALSE, FALSE, FALSE, NoCalibration, Some(1), Some(5), 1, 1, MainDefaultUnit)
        @@ Alerting(UnknownPlaceholderTemplate, FALSE, None) @@ AnySource }

(* ---------------- inputs of the image-processing functions -------------- *)
\* fractions of the radius are given in hundredths
Hundred == 100
\* the dial (x, y, r) the functions are called with, in whole pixels
CallDial == << 30, 30, 20 >>

\* r_inner_min, r_inner_max, r_outer_min, r_outer_max in hundredths: the
\* defaults of get_needle_angle, and bands that overlap
Bands(a, b, c, d) == [r_inner_min |-> a, r_inner_max |-> b, r_outer_min |-> c, r_outer_max |-> d]
DefaultBands == Bands(15, 60, 65, 100)
OverlappingBands == Bands(15, 80, 40, 100)
BandsSet == { DefaultBands, OverlappingBands }
\* filter_lines_for_needle(min_length=0.2), never overridden by its caller
min_length == 20

\* segments (x1, y1, x2, y2) around CallDial with whole lengths and whole
\* distances to the center; with DefaultBands the hub band is (3, 12), the
\* rim band (13, 20) and the shortest length 4
DownNeedle == << 30, 35, 30, 45 >>
LeftNeedle == << 25, 30, 15, 30 >>
UpNeedle == << 30, 25, 30, 15 >>
RightNeedle == << 35, 30, 45, 30 >>
LongDownNeedle == << 30, 34, 30, 48 >>
SkewNeedle == << 38, 30, 30, 45 >>
CounterWeightNeedle == << 30, 25, 30, 45 >>
ShortestNeedle == << 30, 40, 30, 44 >>
TooShort == << 30, 41, 30, 44 >>
HubTooNear == << 30, 33, 30, 45 >>
HubTooFar == << 42, 30, 30, 46 >>
RimTooNear == << 30, 35, 30, 43 >>
RimTooFar == << 30, 35, 30, 50 >>
Equidistant == << 20, 30, 40, 30 >>
SegmentsOneWay ==
    { DownNeedle, LeftNeedle, UpNeedle, RightNeedle, LongDownNeedle, SkewNeedle,
      CounterWeightNeedle, ShortestNeedle, TooShort, HubTooNear, HubTooFar,
      RimTooNear, RimTooFar, Equidistant }
\* the same segment with its endpoints in the other order
Swapped(l) == << l[3], l[4], l[1], l[2] >>
SegmentSet == SegmentsOneWay \cup { Swapped(l) : l \in SegmentsOneWay }

\* len(final_line_list) > 75
MaxCandidates == 75
Repeat(l, n) == [i \in 1..n |-> l]
\* what cv2.HoughLinesP may return: None, or a non-empty array of segments;
\* the long lists hold MaxCandidates or MaxCandidates + 1 needles
SeqsUpTo(S, n) == UNION { [1..k -> S] : k \in 1..n }
LongLinesSet ==
    { Repeat(DownNeedle, MaxCandidates),
      Repeat(DownNeedle, MaxCandidates + 1),
      Repeat(DownNeedle, MaxCandidates) \o << TooShort >>,
      << UpNeedle >> \o Repeat(DownNeedle, MaxCandidates - 1) \o << LeftNeedle >> }
HoughLinesSet == SeqsUpTo(SegmentSet, MaxLines) \cup LongLinesSet

\* calibrations (min_angle, max_angle, min_value, max_value) angle2value is
\* called with, in whole units, and the angles in halves of a unit
CalibrationSet ==
    { << 0, 270, 0, 10 >>, << 45, 315, -5, 5 >>, << 270, 0, 0, 10 >>, << 0, 270, 10, 0 >>,
      << -90, 90, 0, 3 >>, << 0, 3, 0, 1 >> }
CallAngles(c) == { ValDen * c[1], ValDen * c[2], c[1] + c[2], 0, ValDen * 135, ValDen * 360 - 1 }

(* ---------------- pure helpers ------------------------------------------ *)
RECURSIVE SumSeq(_)
SumSeq(s) == IF s = <<>> THEN 0 ELSE Head(s) + SumSeq(Tail(s))

RECURSIVE Insert(_, _)
Insert(v, s) ==
    IF s = <<>> THEN <<v>>
    ELSE IF v <= Head(s) THEN <<v>> \o s
    ELSE <<Head(s)>> \o Insert(v, Tail(s))

RECURSIVE Sort(_)
Sort(s) == IF s = <<>> THEN <<>> ELSE Insert(Head(s), Sort(Tail(s)))

Column(lst, i) == [k \in 1..Len(lst) |-> lst[k][i]]

\* while len(lst) > n: del lst[0]
RECURSIVE DropOldest(_, _)
DropOldest(lst, n) == IF Len(lst) > n THEN DropOldest(Tail(lst), n) ELSE lst

\* np.median of a non-empty list of numbers: the middle element of the sorted
\* list, or the mean of the two middle elements
Median(s) ==
    LET t == Sort(s)
        n == Len(t)
    IN  IF n % 2 = 1 THEN t[(n + 1) \div 2]
        ELSE (t[n \div 2] + t[n \div 2 + 1]) \div 2

\* np.median(lst, axis=0) of a list of (x, y, r) triples
MedianAxis0(lst) == << Median(Column(lst, 1)), Median(Column(lst, 2)), Median(Column(lst, 3)) >>

\* np.mean of a non-empty list of whole numbers, as a fixed-point number
MeanPix(s) == (PixDen * SumSeq(s)) \div Len(s)

\* the first circle in place of the mean
detect_dial_first(cs) ==
    IF Len(cs) = 0 THEN None
    ELSE << PixDen * cs[1][1], PixDen * cs[1][2], PixDen * cs[1][3] >>

\* detect_dial: None when cv2.HoughCircles returned no circle, else the
\* coordinate-wise mean of the circles
detect_dial(cs) ==
    IF Len(cs) = 0 THEN None
    ELSE << MeanPix(Column(cs, 1)), MeanPix(Column(cs, 2)), MeanPix(Column(cs, 3)) >>

\* the quotient taken before the product
angle2value_DivideFirst(min_a, max_a, min_v, max_v, angle) ==
    LET angle_range == max_a - min_a
        value_range == max_v - min_v
    IN  min_v + ((angle - min_a) \div angle_range) * value_range

\* angle2value, on fixed-point numbers
angle2value(min_a, max_a, min_v, max_v, angle) ==
    LET angle_range == max_a - min_a
        value_range == max_v - min_v
    IN  min_v + ((angle - min_a) * value_range) \div angle_range

(* ---------------- filter_lines_for_needle, get_needle_angle -------------- *)
\* the square root of a square number
Sqrt(n) == CHOOSE d \in 0..n : d * d = n

\* dist_2_pts: ((x2 - x1)**2 + (y2 - y1)**2)**0.5
dist_2_pts(x1, y1, x2, y2) == Sqrt((x2 - x1) * (x2 - x1) + (y2 - y1) * (y2 - y1))

\* the band test with the upper bound included
StrictlyBetween_UpperIncluded(lo, d, hi, r) == lo * r < Hundred * d /\ Hundred * d <= hi * r

\* lo*r < d < hi*r, with lo and hi in hundredths
StrictlyBetween(lo, d, hi, r) == lo * r < Hundred * d /\ Hundred * d < hi * r

\* not (length < min_length*r)
LongEnough(length, r) == ~(Hundred * length < min_length * r)

\* if diff1 > diff2: swap them
SortedDistances(diff1, diff2) == IF diff1 > diff2 THEN << diff2, diff1 >> ELSE << diff1, diff2 >>

\* the body of the loop over the lines: is the line appended to final_line_list
IsValidNeedle(line, x, y, r, bands) ==
    LET length == dist_2_pts(line[1], line[2], line[3], line[4])
        diff == SortedDistances(dist_2_pts(x, y, line[1], line[2]),
                                dist_2_pts(x, y, line[3], line[4]))
    IN  IF ~LongEnough(length, r) THEN FALSE
        ELSE /\ StrictlyBetween(bands.r_inner_min, diff[1], bands.r_inner_max, r)
             /\ StrictlyBetween(bands.r_outer_min, diff[2], bands.r_outer_max, r)

\* filter_lines_for_needle: final_line_list, to which the loop over the lines
\* appends every accepted line
filter_lines_for_needle(lines, x, y, r, bands) ==
    LET Accepted(line) == IsValidNeedle(line, x, y, r, bands)
    IN  SelectSeq(lines, Accepted)

\* angles of get_needle_angle are in degrees here: np.pi is 180
Pi == 180

\* np.arctan2(a, b) for a direction along an axis or a diagonal.  The code
\* calls it with a = -(x1 - x): where that is -0.0 and b < 0 the result is
\* -pi, which the wrap below turns into the pi of +0.0.
arctan2(a, b) ==
    IF a = 0 THEN (IF b >= 0 THEN 0 ELSE Pi)
    ELSE IF b = 0 THEN (IF a > 0 THEN Pi \div 2 ELSE -(Pi \div 2))
    ELSE IF a > 0 THEN (IF b > 0 THEN Pi \div 4 ELSE 3 * (Pi \div 4))
    ELSE (IF b > 0 THEN -(Pi \div 4) ELSE -(3 * (Pi \div 4)))

\* the angle left as arctan2 gives it
WrapAngle_NoWrap(ang) == ang

\* if ang < 0: ang += 2*np.pi
WrapAngle(ang) == IF ang < 0 THEN ang + 2 * Pi ELSE ang

\* the angle of a candidate: the direction of the endpoint that is farther
\* from (x, y), of endpoint 2 when none is
LineAngle(line, x, y) ==
    LET dist_pt_1 == dist_2_pts(x, y, line[1], line[2])
        dist_pt_2 == dist_2_pts(x, y, line[3], line[4])
        ang == IF dist_pt_1 > dist_pt_2
               THEN arctan2(-(line[1] - x), line[2] - y)
               ELSE arctan2(-(line[3] - x), line[4] - y)
    IN  WrapAngle(ang)

LineLength(line) == dist_2_pts(line[1], line[2], line[3], line[4])

\* the sum of s[lo..hi], by halves
RECURSIVE SumRange(_, _, _)
SumRange(s, lo, hi) ==
    IF lo > hi THEN 0
    ELSE IF lo = hi THEN s[lo]
    ELSE LET mid == (lo + hi) \div 2
         IN  SumRange(s, lo, mid) + SumRange(s, mid + 1, hi)

\* the quotient num/den, kept as a fraction
Fraction(n, d) == [num |-> n, den |-> d]

\* the mean without the weights
np_average_Unweighted(a, weights) == Fraction(SumRange(a, 1, Len(a)), Len(a))

\* np.average(a, weights=weights): sum(a*weights) / sum(weights)
np_average(a, weights) ==
    Fraction(SumRange([i \in DOMAIN a |-> a[i] * weights[i]], 1, Len(a)),
             SumRange(weights, 1, Len(weights)))

\* the limit with 75 candidates refused as well
TooManyCandidates_From75(n) == n >= MaxCandidates

\* len(final_line_list) > 75
TooManyCandidates(n) == n > MaxCandidates

\* what get_needle_angle returns first: an error string or the angle
NeedleError(msg) == [error |-> msg, angle |-> None]
NeedleFound(a) == [error |-> "", angle |-> Some(a)]

\* get_needle_angle from the result of cv2.HoughLinesP on: lines is None or
\* holds the array of segments
get_needle_angle(lines, x, y, r, bands) ==
    IF IsNone(lines) THEN NeedleError(NoLines)
    ELSE LET final_line_list == filter_lines_for_needle(Val(lines), x, y, r, bands)
             angles == [i \in DOMAIN final_line_list |-> LineAngle(final_line_list[i], x, y)]
             lengths == [i \in DOMAIN final_line_list |-> LineLength(final_line_list[i])]
         IN  IF TooManyCandidates(Len(final_line_list)) THEN NeedleError(TooMany)
             ELSE IF Len(final_line_list) > 0 THEN NeedleFound(np_average(angles, lengths))
             ELSE NeedleError(NoNeedle)

\* the members of the enumeration ThresholdMode, by name; the mode may also
\* be absent (None), which is not the member none
ThresholdMode == { "none", "binary", "gray", "gauss", "otsu" }
ThresholdModeSet == { None } \cup { Some(m) : m \in ThresholdMode }

\* the cv2 operations apply_threshold runs on the image, in order
THRESH_BINARY_INV == "cv2.threshold(THRESH_BINARY_INV)"
THRESH_TOZERO == "cv2.threshold(THRESH_TOZERO)"
ADAPTIVE_THRESH_GAUSSIAN_C == "cv2.adaptiveThreshold(ADAPTIVE_THRESH_GAUSSIAN_C)"
GaussianBlur == "cv2.GaussianBlur"
THRESH_OTSU == "cv2.threshold(THRESH_BINARY + THRESH_OTSU)"
ThresholdOperations ==
    { THRESH_BINARY_INV, THRESH_TOZERO, ADAPTIVE_THRESH_GAUSSIAN_C, THRESH_OTSU }

\* apply_threshold: the if/elif chain over threshold_mode has no else
apply_threshold(threshold_mode) ==
    IF IsNone(threshold_mode) \/ threshold_mode = Some("binary") THEN << THRESH_BINARY_INV >>
    ELSE IF threshold_mode = Some("gray") THEN << THRESH_TOZERO >>
    ELSE IF threshold_mode = Some("gauss") THEN << ADAPTIVE_THRESH_GAUSSIAN_C >>
    ELSE IF threshold_mode = Some("otsu") THEN << GaussianBlur, THRESH_OTSU >>
    ELSE <<>>

(* ---------------- state ------------------------------------------------- *)
VARIABLES
    \* parameters of main(), fixed once it runs
    port, post_url, mqtt_broker, calibration, unit, min_warn, max_warn,
    median_filter_dial_position_N, median_filter_value_N,
    warning_template, no_warnings, xmpp_recipients,
    \* the frame source of get_image, the paths its glob matched, and the pause
    \* between iterations
    source, files, min_measurement_interval,
    \* the clock
    now,
    \* locals of main() that live across iterations
    debug_export_number, last_warn_time, calibration_lst, values_lst, avg,
    last_successful_detection_time,
    \* position of the worker in the loop body
    pc,
    \* locals of the current iteration
    circles, xyr, needle_angle, value, debug_imgs, error,
    \* the number written as text on img_c, the annotated frame
    img_c,
    \* what the current iteration handed to the sinks, and the answer of the
    \* HTTP server to GET /is_debug
    sent_values, sent_img, sent_debug, is_debug,
    \* the keys of DebugViewerServer.server_data
    server_data,
    \* history of the run: frames yielded, steps of the current iteration, raw
    \* (x, y, r) of every frame whose dial was found, alerts given to
    \* send_warning, the exception that ended main()
    frames, stages, pushed, alerts, crash,
    \* get_image: the next path of the glob, the failed attempts since the last
    \* frame, the image yielded last, and the paths whose image was yielded
    next_file, attempts, img, processed,
    \* the time the current iteration started at
    loop_start_time,
    \* a call of one of the image-processing functions on its own: the
    \* function, its arguments, and what it returned
    call, args, ret

config == << port, post_url, mqtt_broker, calibration, unit, min_warn, max_warn,
             median_filter_dial_position_N, median_filter_value_N,
             warning_template, no_warnings, xmpp_recipients,
             source, files, min_measurement_interval >>
core == << debug_export_number, last_warn_time, calibration_lst, values_lst, avg,
           last_successful_detection_time >>
frame == << circles, xyr, needle_angle, value, debug_imgs, error >>
sinks == << sent_values, sent_img, sent_debug, is_debug >>
calls == << call, args, ret >>
acquisition == << next_file, attempts, img, processed, loop_start_time >>
vars == << config, now, core, pc, frame, img_c, sinks, server_data, frames, stages, pushed,
          alerts, crash, calls, acquisition >>

\* warning_template.substitute(value='3.1 bar', time=...) before the loop: a
\* template it raises for ends main() before any frame is asked for
TemplateRejected(template) ==
    SubstituteRaises(template, Keywords(31, Some("bar"), 0))

\* main(**p) up to the for loop
MainInit(p) ==
    /\ port = p.port
    /\ post_url = p.post_url
    /\ mqtt_broker = p.mqtt_broker
    /\ calibration = p.calibration
    /\ unit = p.unit
    /\ min_warn = p.min_warn
    /\ max_warn = p.max_warn
    /\ median_filter_dial_position_N = p.median_filter_dial_position_N
    /\ median_filter_value_N = p.median_filter_value_N
    /\ warning_template = p.warning_template
    /\ no_warnings = p.no_warnings
    /\ xmpp_recipients = p.xmpp_recipients
    /\ source = p.source
    /\ files = p.files
    /\ min_measurement_interval = p.min_measurement_interval
    /\ next_file = 1
    /\ attempts = 0
    /\ img = NoImage
    /\ processed = <<>>
    /\ loop_start_time = -Epoch
    /\ now = 0
    /\ debug_export_number = 0
    /\ last_warn_time = now - warn_interval
    /\ calibration_lst = <<>>
    /\ values_lst = <<>>
    /\ avg = None
    /\ last_successful_detection_time = now
    /\ pc = IF TemplateRejected(p.warning_template) THEN "Rejected" ELSE "AcquireFrame"
    /\ circles = <<>>
    /\ xyr = None
    /\ needle_angle = None
    /\ value = None
    /\ debug_imgs = {}
    /\ error = ""
    /\ img_c = None
    /\ sent_values = <<>>
    /\ sent_img = FALSE
    /\ sent_debug = None
    /\ is_debug = None
    /\ server_data = {}
    /\ frames = 0
    /\ stages = <<>>
    /\ pushed = <<>>
    /\ alerts = <<>>
    /\ crash = IF TemplateRejected(p.warning_template) THEN "KeyError" ELSE ""

\* no function is called on its own while main() runs
NoCall ==
    /\ call = ""
    /\ args = <<>>
    /\ ret = None

Init ==
    /\ \E p \in ParamSet : MainInit(p)
    /\ NoCall

\* an exception other than DetectionError leaves the loop and main()
Raise(exc) ==
    /\ pc' = "Crashed"
    /\ crash' = exc

\* the handler, were it to reset the watchdog as the end of the try block does
ExceptDetectionError_ResetWatchdog(msg) ==
    /\ error' = msg
    /\ debug_export_number' = (debug_export_number + 1) % 10
    /\ last_successful_detection_time' = now
    /\ pc' = "Publish"

\* except DetectionError, were the counter to run on without a bound
ExceptDetectionError_Unbounded(msg) ==
    /\ error' = msg
    /\ debug_export_number' = debug_export_number + 1
    /\ UNCHANGED last_successful_detection_time
    /\ pc' = "Publish"

\* except DetectionError: count it, go on after the try block; the reset of
\* the watchdog at the end of the try block is skipped
ExceptDetectionError(msg) ==
    /\ error' = msg
    /\ debug_export_number' = (debug_export_number + 1) % 10
    /\ UNCHANGED last_successful_detection_time
    /\ pc' = "Publish"

(* ---------------- the loop body ----------------------------------------- *)
\* no pause between the iterations
SleepUntil_NoSleep(t) == t

\* time.sleep(max(0.0, (loop_start_time+min_measurement_interval)-time.time()))
\* when min_measurement_interval is set and not 0: the time the sleep ends at,
\* t being the time the frame was yielded at
SleepUntil(t) ==
    IF IsNone(min_measurement_interval) \/ min_measurement_interval = Some(0) THEN t
    ELSE IF loop_start_time + Val(min_measurement_interval) > t
         THEN loop_start_time + Val(min_measurement_interval)
         ELSE t

\* the start of an iteration, were the yield of a frame to reset the watchdog
AcquireFrame_ResetWatchdog ==
    /\ pc = "AcquireFrame"
    /\ frames < MaxFrames
    /\ \E dt \in DtSet : now' = SleepUntil(now + dt)
    /\ loop_start_time' = now'
    /\ last_successful_detection_time' = now'
    /\ frames' = frames + 1
    /\ stages' = << "AcquireFrame" >>
    /\ debug_imgs' = { "raw" }
    /\ circles' = <<>>
    /\ xyr' = None
    /\ needle_angle' = None
    /\ value' = None
    /\ error' = ""
    /\ sent_values' = <<>>
    /\ sent_img' = FALSE
    /\ sent_debug' = None
    /\ is_debug' = None
    /\ img_c' = None
    /\ img' = Decoded
    /\ pc' = "LocateDial"
    /\ UNCHANGED << calls, server_data, config, debug_export_number, last_warn_time,
                    calibration_lst, values_lst, avg, pushed, alerts, crash,
                    next_file, attempts, processed >>

\* the top of the loop body for a frame yielded at time t: the pause, the
\* note of the start time, and the locals of the iteration
BeginIteration(t) ==
    /\ now' = SleepUntil(t)
    /\ loop_start_time' = now'
    /\ frames' = frames + 1
    /\ stages' = << "AcquireFrame" >>
    /\ debug_imgs' = { "raw" }
    /\ circles' = <<>>
    /\ xyr' = None
    /\ needle_angle' = None
    /\ value' = None
    /\ error' = ""
    /\ sent_values' = <<>>
    /\ sent_img' = FALSE
    /\ sent_debug' = None
    /\ is_debug' = None
    /\ img_c' = None
    /\ pc' = "LocateDial"
    /\ UNCHANGED << calls, server_data, config, core, pushed, alerts, crash >>

\* get_image yields the next (timestamp, image); the iteration starts
AcquireFrame ==
    /\ pc = "AcquireFrame"
    /\ frames < MaxFrames
    /\ \E dt \in DtSet : BeginIteration(now + dt)
    /\ img' = Decoded
    /\ UNCHANGED << next_file, attempts, processed >>

\* the sequence of get_image is exhausted (a file:// glob): the for loop ends
SourceExhausted ==
    /\ pc = "AcquireFrame"
    /\ pc' = "Done"
    /\ UNCHANGED << calls, acquisition, server_data, config, img_c, now, core, frame, sinks, frames, stages, pushed, alerts, crash >>

\* the overlay stored only when a dial was found
DialDebugImgs_FoundOnly(d) ==
    IF IsNone(d) THEN debug_imgs ELSE debug_imgs \cup { "detect_dial_debug_img" }

\* the images stored in debug_imgs once detect_dial has returned
DialDebugImgs(d) == debug_imgs \cup { "detect_dial_debug_img" }

LocateDial ==
    /\ pc = "LocateDial"
    /\ stages' = Append(stages, "LocateDial")
    /\ \E cs \in HoughCirclesSet :
         LET d == detect_dial(cs) IN
         /\ circles' = cs
         /\ debug_imgs' = DialDebugImgs(d)
         /\ xyr' = d
         /\ IF IsNone(d)
            THEN ExceptDetectionError(NoCircles)
            ELSE /\ pc' = "StabilizeDial"
                 /\ UNCHANGED << error, debug_export_number, last_successful_detection_time >>
    /\ UNCHANGED << calls, acquisition, server_data, config, img_c, now, last_warn_time, calibration_lst, values_lst, avg,
                    needle_angle, value, sinks, frames, pushed, alerts, crash >>

\* the push without the drop of the oldest triples
PushDial_NoDrop(lst, raw, n) == Append(lst, raw)

\* the push, were it to start the history anew
PushDial_Cleared(lst, raw, n) == << raw >>

\* calibration_lst after the push of the raw triple
PushDial(lst, raw, n) == DropOldest(Append(lst, raw), n)

\* (x, y, r) after the median filter over the dial history
StabilizedDial(lst, raw, n) == IF n > 1 THEN MedianAxis0(PushDial(lst, raw, n)) ELSE raw

\* draw_dial raises TypeError when min_value is given without the other bounds
DrawDialRaises ==
    /\ ~IsNone(calibration.min_value)
    /\ \/ IsNone(calibration.min_angle)
       \/ IsNone(calibration.max_angle)
       \/ IsNone(calibration.max_value)

StabilizeDial ==
    /\ pc = "StabilizeDial"
    /\ stages' = Append(stages, "StabilizeDial")
    /\ pushed' = Append(pushed, xyr)
    /\ calibration_lst' = IF median_filter_dial_position_N > 1
                          THEN PushDial(calibration_lst, xyr, median_filter_dial_position_N)
                          ELSE calibration_lst
    /\ xyr' = StabilizedDial(calibration_lst, xyr, median_filter_dial_position_N)
    /\ IF DrawDialRaises
       THEN Raise("TypeError")
       ELSE pc' = "DetectNeedle" /\ UNCHANGED crash
    /\ UNCHANGED << calls, acquisition, server_data, config, img_c, now, debug_export_number, last_warn_time, values_lst, avg,
                    last_successful_detection_time, circles, needle_angle, value,
                    debug_imgs, error, sinks, frames, alerts >>

DetectNeedle ==
    /\ pc = "DetectNeedle"
    /\ stages' = Append(stages, "DetectNeedle")
    /\ debug_imgs' = debug_imgs \cup { "after_threshold_img", "detect_needle_debug_img" }
    /\ \/ \E msg \in NeedleErrors :
            /\ ExceptDetectionError(msg)
            /\ UNCHANGED needle_angle
       \/ \E degrees \in AngleSet :
            /\ needle_angle' = Some(ValDen * degrees)
            /\ pc' = "ComputeValue"
            /\ UNCHANGED << error, debug_export_number, last_successful_detection_time >>
    /\ UNCHANGED << calls, acquisition, server_data, config, img_c, now, last_warn_time, calibration_lst, values_lst, avg,
                    circles, xyr, value, sinks, frames, pushed, alerts, crash >>

HasCalibration ==
    /\ ~IsNone(calibration.min_angle)
    /\ ~IsNone(calibration.max_angle)
    /\ ~IsNone(calibration.min_value)
    /\ ~IsNone(calibration.max_value)

\* the read-out value of a needle angle given in degrees
ConvertedValue(angle) ==
    IF HasCalibration
    THEN angle2value(ValDen * Val(calibration.min_angle), ValDen * Val(calibration.max_angle),
                     ValDen * Val(calibration.min_value), ValDen * Val(calibration.max_value),
                     angle)
    ELSE angle

\* the number put on the annotated frame: avg, when it is not nan
ValueText == avg

ComputeValue ==
    /\ pc = "ComputeValue"
    /\ stages' = Append(stages, "ComputeValue")
    /\ value' = Some(ConvertedValue(Val(needle_angle)))
    /\ img_c' = ValueText
    /\ pc' = "PublishValue"
    /\ UNCHANGED << calls, acquisition, server_data, config, now, core, circles, xyr, needle_angle, debug_imgs, error,
                    sinks, frames, pushed, alerts, crash >>

\* the number put in status and handed to the value sinks
StatusValue == Val(value)

\* {unit} in the f-string of status: str(None) is the text None
StatusUnit == IF IsNone(unit) THEN "None" ELSE Val(unit)
\* status goes to the visualization server only; the data for post_url and
\* the payload for the broker carry no unit
NoUnit == ""
SinkUnit(sink) == IF sink = "port" THEN StatusUnit ELSE NoUnit

SinkRecord(sink, ok) ==
    [sink |-> sink, value |-> StatusValue, unit |-> SinkUnit(sink), delivered |-> ok]

\* a failed requests.post to post_url is caught and logged; the post to the
\* visualization server on port is not guarded
\* DebugViewerRequestHandler.do_POST, run by a thread of the server while the
\* worker waits in requests.post: it stores the body under the key of the
\* path; a request that fails has not reached the handler
do_POST(data, path) ==
    CASE path = "/data" -> data \cup { "data" }
      [] path = "/time" -> data \cup { "time" }
      [] path = "/img" -> data \cup { "img" }
      [] path = "/debug" -> data \cup { "debug_jpgs" }
      [] OTHER -> data

PublishValue ==
    /\ pc = "PublishValue"
    /\ stages' = Append(stages, "PublishValue")
    /\ \E post_ok \in BOOLEAN, data_ok \in BOOLEAN :
         LET to_post == IF post_url THEN << SinkRecord("post_url", post_ok) >> ELSE <<>>
             to_port == IF port THEN << SinkRecord("port", data_ok) >> ELSE <<>>
             to_mqtt == IF mqtt_broker THEN << SinkRecord("mqtt", TRUE) >> ELSE <<>>
         IN  IF port /\ ~data_ok
             THEN /\ sent_values' = to_post \o to_port
                  /\ UNCHANGED server_data
                  /\ Raise("RequestException")
             ELSE /\ sent_values' = to_post \o to_port \o to_mqtt
                  /\ server_data' = IF port THEN do_POST(server_data, "/data") ELSE server_data
                  /\ pc' = "ValueWatchdog"
                  /\ UNCHANGED crash
    /\ UNCHANGED << calls, acquisition, config, img_c, now, core, frame, sent_img, sent_debug, is_debug,
                    frames, pushed, alerts >>

\* the append without the drop of the oldest values
PushValue_NoDrop(lst, v, n) == Append(lst, v)

\* values_lst after the append of the new value
PushValue(lst, v, n) == DropOldest(Append(lst, v), n)

\* the gate of an alert without the interval
WarnIntervalElapsed_NoInterval == last_warn_time < now

\* the comparison with <= in place of <
WarnIntervalElapsed_Inclusive == (last_warn_time + warn_interval) <= now

\* (last_warn_time + warn_interval) < time.time()
WarnIntervalElapsed == (last_warn_time + warn_interval) < now

\* avg <= min_warn or avg >= max_warn raises TypeError when it reaches a
\* threshold that is None
CompareRaises(a) ==
    \/ IsNone(min_warn)
    \/ /\ ~(a <= ValDen * Val(min_warn))
       /\ IsNone(max_warn)

OutOfRange(a) ==
    IF a <= ValDen * Val(min_warn) THEN TRUE ELSE a >= ValDen * Val(max_warn)

\* send_warning(msg, no_send=no_warnings, xmpp_recipients=xmpp_recipients)
\* with msg the template filled in
ValueAlert(a) ==
    [kind |-> "value", time |-> now, value |-> a] @@
    send_warning(substitute(warning_template, Keywords(a, unit, now)),
                 no_warnings, xmpp_recipients)

ValueWatchdog ==
    /\ pc = "ValueWatchdog"
    /\ stages' = Append(stages, "ValueWatchdog")
    /\ LET lst == PushValue(values_lst, Val(value), median_filter_value_N)
           med == Median(lst)
       IN  /\ values_lst' = lst
           /\ IF Len(lst) >= median_filter_value_N /\ WarnIntervalElapsed
              THEN /\ avg' = Some(med)
                   /\ IF CompareRaises(med)
                      THEN /\ Raise("TypeError")
                           /\ UNCHANGED << last_warn_time, last_successful_detection_time, alerts >>
                      ELSE /\ IF OutOfRange(med)
                              THEN /\ alerts' = Append(alerts, ValueAlert(med))
                                   /\ last_warn_time' = now
                              ELSE UNCHANGED << alerts, last_warn_time >>
                           /\ last_successful_detection_time' = now
                           /\ pc' = "Publish"
                           /\ UNCHANGED crash
              ELSE /\ last_successful_detection_time' = now
                   /\ pc' = "Publish"
                   /\ UNCHANGED << avg, alerts, last_warn_time, crash >>
    /\ UNCHANGED << calls, acquisition, server_data, config, img_c, now, debug_export_number, calibration_lst, frame, sinks,
                    frames, pushed >>

\* the bundle, were the images of the needle detector always part of it
DebugBundle_AllFour ==
    debug_imgs \cup { "after_threshold_img", "detect_needle_debug_img", "final_img" }

\* debug_jpgs: the images stored in debug_imgs so far, and the annotated frame
DebugBundle == debug_imgs \cup { "final_img" }

\* GET /is_debug answers 1 for 10 seconds after the last request of a
\* debug page, and 0 when none was ever requested
IsDebugAnswers ==
    IF "last_time_debug_was_requested" \in server_data THEN BOOLEAN ELSE { FALSE }

\* server_data once the server has handled the posts of the annotated frame
\* and of the bundle that went through
PostedByPublish(img_ok, debug_ok) ==
    LET with_img == IF img_ok THEN do_POST(server_data, "/img") ELSE server_data
    IN  IF debug_ok THEN do_POST(with_img, "/debug") ELSE with_img

\* DebugViewerRequestHandler.do_GET for /debug and /debug/*.jpg, run by a
\* thread of the server when a browser asks: it notes the time of the
\* request.  The worker sees server_data only through the answer it gets in
\* Publish, so a request handled at any other moment of an iteration is one
\* handled while the worker waits for the frame, before or after
do_GET ==
    /\ port
    /\ pc = "AcquireFrame"
    /\ "last_time_debug_was_requested" \notin server_data
    /\ server_data' = server_data \cup { "last_time_debug_was_requested" }
    /\ UNCHANGED << calls, acquisition, config, now, core, pc, frame, img_c, sinks, frames, stages, pushed,
                    alerts, crash >>

\* after the try block: the annotated frame, then the read of the server's
\* flag and, when it is set, the debug bundle; none of the requests is guarded
Publish ==
    /\ pc = "Publish"
    /\ stages' = Append(stages, "Publish")
    /\ IF port
       THEN \E img_ok \in BOOLEAN, flag_ok \in BOOLEAN, flag \in IsDebugAnswers,
               debug_ok \in BOOLEAN :
              /\ sent_img' = img_ok
              /\ server_data' = PostedByPublish(img_ok, img_ok /\ flag_ok /\ flag /\ debug_ok)
              /\ is_debug' = IF img_ok /\ flag_ok THEN Some(flag) ELSE None
              /\ sent_debug' = IF img_ok /\ flag_ok /\ flag /\ debug_ok
                               THEN Some(DebugBundle) ELSE None
              /\ IF img_ok /\ flag_ok /\ (flag => debug_ok)
                 THEN pc' = "SilenceWatchdog" /\ UNCHANGED crash
                 ELSE Raise("RequestException")
       ELSE /\ pc' = "SilenceWatchdog"
            /\ UNCHANGED << sent_img, sent_debug, is_debug, server_data, crash >>
    /\ UNCHANGED << calls, acquisition, config, img_c, now, core, frame, sent_values, frames, pushed, alerts >>

\* the comparison with <= in place of <
NoDetectionTooLong_Inclusive == (last_successful_detection_time + warn_no_detections_s) <= now

\* (last_successful_detection_time + warn_no_detections_s) < time.time()
NoDetectionTooLong == (last_successful_detection_time + warn_no_detections_s) < now

\* send_warning(f'No measurement since {last_successful_detection_time_str}'):
\* no_send and xmpp_recipients are left at the defaults of send_warning
NoMeasurementText ==
    << Text("No measurement since "), FormattedTime(last_successful_detection_time) >>
NoMeasurementAlert ==
    [kind |-> "no measurement", time |-> now, value |-> last_successful_detection_time] @@
    send_warning(NoMeasurementText, FALSE, None)

\* the watchdog, were its alert to restart the silence it measures
SilenceWatchdog_Restart ==
    /\ pc = "SilenceWatchdog"
    /\ stages' = Append(stages, "SilenceWatchdog")
    /\ IF NoDetectionTooLong /\ WarnIntervalElapsed
       THEN /\ last_warn_time' = now
            /\ last_successful_detection_time' = now
            /\ alerts' = Append(alerts, NoMeasurementAlert)
       ELSE UNCHANGED << last_warn_time, last_successful_detection_time, alerts >>
    /\ pc' = "AcquireFrame"
    /\ UNCHANGED << calls, acquisition, server_data, config, img_c, now, debug_export_number,
                    calibration_lst, values_lst, avg, frame, sinks, frames, pushed, crash >>

SilenceWatchdog ==
    /\ pc = "SilenceWatchdog"
    /\ stages' = Append(stages, "SilenceWatchdog")
    /\ IF NoDetectionTooLong /\ WarnIntervalElapsed
       THEN /\ last_warn_time' = now
            /\ alerts' = Append(alerts, NoMeasurementAlert)
       ELSE UNCHANGED << last_warn_time, alerts >>
    /\ pc' = "AcquireFrame"
    /\ UNCHANGED << calls, acquisition, server_data, config, img_c, now, debug_export_number, calibration_lst, values_lst, avg,
                    last_successful_detection_time, frame, sinks, frames, pushed, crash >>

Next ==
    \/ AcquireFrame
    \/ SourceExhausted
    \/ LocateDial
    \/ StabilizeDial
    \/ DetectNeedle
    \/ ComputeValue
    \/ PublishValue
    \/ ValueWatchdog
    \/ Publish
    \/ SilenceWatchdog
    \/ do_GET

Spec == Init /\ [][Next]_vars

(* ---------------- the image-processing functions called on their own ---- *)
\* main() does not run: its variables stay as they are before the loop
MainIdle ==
    MainInit(Params(FALSE, FALSE, FALSE, NoCalibration, None, None, 1, 1, MainDefaultUnit)
               @@ Alerting(MainDefaultTemplate, FALSE, None) @@ AnySource)

\* the arguments of filter_lines_for_needle and get_needle_angle
LineArgs(lines, bands) ==
    [lines |-> lines, x |-> CallDial[1], y |-> CallDial[2], r |-> CallDial[3], bands |-> bands]

LibInit ==
    /\ MainIdle
    /\ ret = None
    /\ \/ /\ call = "filter_lines_for_needle"
          /\ \E lines \in HoughLinesSet, bands \in BandsSet : args = LineArgs(lines, bands)
       \/ /\ call = "angle2value"
          /\ \E c \in CalibrationSet : \E angle \in CallAngles(c) :
                args = [min_angle |-> ValDen * c[1], max_angle |-> ValDen * c[2],
                        min_value |-> ValDen * c[3], max_value |-> ValDen * c[4],
                        angle |-> angle]
       \/ /\ call = "get_needle_angle"
          /\ \E lines \in { None } \cup { Some(l) : l \in HoughLinesSet }, bands \in BandsSet :
                args = LineArgs(lines, bands)
       \/ /\ call = "apply_threshold"
          /\ \E mode \in ThresholdModeSet : args = [threshold_mode |-> mode]

call_filter_lines_for_needle ==
    /\ call = "filter_lines_for_needle"
    /\ IsNone(ret)
    /\ ret' = Some(filter_lines_for_needle(args.lines, args.x, args.y, args.r, args.bands))
    /\ UNCHANGED << acquisition, config, now, core, pc, frame, img_c, sinks, server_data, frames, stages, pushed,
                    alerts, crash, call, args >>

call_get_needle_angle ==
    /\ call = "get_needle_angle"
    /\ IsNone(ret)
    /\ ret' = Some(get_needle_angle(args.lines, args.x, args.y, args.r, args.bands))
    /\ UNCHANGED << acquisition, config, now, core, pc, frame, img_c, sinks, server_data, frames, stages, pushed,
                    alerts, crash, call, args >>

call_angle2value ==
    /\ call = "angle2value"
    /\ IsNone(ret)
    /\ ret' = Some(angle2value(args.min_angle, args.max_angle, args.min_value,
                               args.max_value, args.angle))
    /\ UNCHANGED << acquisition, config, now, core, pc, frame, img_c, sinks, server_data, frames, stages, pushed,
                    alerts, crash, call, args >>

call_apply_threshold ==
    /\ call = "apply_threshold"
    /\ IsNone(ret)
    /\ ret' = Some(apply_threshold(args.threshold_mode))
    /\ UNCHANGED << acquisition, config, now, core, pc, frame, img_c, sinks, server_data, frames, stages, pushed,
                    alerts, crash, call, args >>

LibNext ==
    \/ call_angle2value
    \/ call_apply_threshold
    \/ call_filter_lines_for_needle
    \/ call_get_needle_angle

LibSpec == LibInit /\ [][LibNext]_vars

(* ---------------- the main loop fed by get_image ------------------------ *)
\* thresholds out of reach and no sink: the frames end in a value or in a
\* DetectionError, and the only alert is the one of the silence watchdog
Quiet ==
    Params(FALSE, FALSE, FALSE, NoCalibration, Some(-OutOfReach), Some(OutOfReach), 1, 1, MainDefaultUnit)
      @@ Alerting(MainDefaultTemplate, FALSE, None)

\* more matched files than the detection-error counter has values
ManyFiles == 10

SourceParamSet ==
    { Quiet @@ Source("file", << RegularFile, Directory, RegularFile >>, Some(2)),
      Quiet @@ Source("file", << RegularFile, NoImageFile, RegularFile >>, None),
      Quiet @@ Source("file", Repeat(RegularFile, ManyFiles), None),
      Quiet @@ Source("http", <<>>, None),
      Quiet @@ Source("http", <<>>, Some(2)),
      Params(FALSE, FALSE, FALSE, NoCalibration, None, None, 1, 1, MainDefaultUnit)
        @@ Alerting(MainDefaultTemplate, FALSE, None) @@ Source("camera", <<>>, Some(1)) }

\* img_c.copy() on a pair whose image is None: the pause and the note of the
\* start time are done, then the AttributeError leaves main()
BeginWithoutImage(t) ==
    /\ now' = SleepUntil(t)
    /\ loop_start_time' = now'
    /\ frames' = frames + 1
    /\ stages' = << "AcquireFrame" >>
    /\ Raise("AttributeError")
    /\ UNCHANGED << calls, server_data, config, core, frame, img_c, sinks, pushed, alerts >>

\* the loop body receives the pair (timestamp, image)
Yield(image) ==
    /\ img' = image
    /\ IF image = PyNone THEN BeginWithoutImage(now) ELSE BeginIteration(now)

\* cv2.imdecode on the body of a response that is ok and not empty
imdecode == { Decoded, PyNone }

\* cv2.imread on a path that is a file
imread(path) == IF path = NoImageFile THEN PyNone ELSE Decoded

\* a failed attempt, were the silence watchdog to look at the clock in the
\* retry loop too
get_image_retry_Watched ==
    /\ source \in { "http", "camera" }
    /\ pc = "AcquireFrame"
    /\ frames < MaxFrames
    /\ attempts < MaxAttempts
    /\ attempts' = attempts + 1
    /\ now' = now + 1
    /\ IF NoDetectionTooLong /\ WarnIntervalElapsed
       THEN /\ last_warn_time' = now
            /\ alerts' = Append(alerts, NoMeasurementAlert)
       ELSE UNCHANGED << last_warn_time, alerts >>
    /\ UNCHANGED << calls, server_data, config, debug_export_number, calibration_lst,
                    values_lst, avg, last_successful_detection_time, pc, frame, img_c, sinks,
                    frames, stages, pushed, crash, next_file, img, processed, loop_start_time >>

\* the while loops of an http url and of a camera: requests.get raises or
\* answers with an empty body or an error status, cap.read() reports no
\* frame; the error is logged and the loop goes round
get_image_retry ==
    /\ source \in { "http", "camera" }
    /\ pc = "AcquireFrame"
    /\ frames < MaxFrames
    /\ attempts < MaxAttempts
    /\ attempts' = attempts + 1
    /\ now' = now + 1
    /\ UNCHANGED << calls, server_data, config, core, pc, frame, img_c, sinks, frames, stages,
                    pushed, alerts, crash, next_file, img, processed, loop_start_time >>

\* the while loops of an http url and of a camera: a pair is yielded
get_image_yield ==
    /\ source \in { "http", "camera" }
    /\ pc = "AcquireFrame"
    /\ frames < MaxFrames
    /\ \E image \in (IF source = "http" THEN imdecode ELSE { Decoded }) : Yield(image)
    /\ attempts' = 0
    /\ UNCHANGED << next_file, processed >>

\* the for loop over the glob of a file:// url: the next path is logged as
\* no file, or read and yielded
get_image_file ==
    /\ source = "file"
    /\ pc = "AcquireFrame"
    /\ next_file <= Len(files)
    /\ next_file' = next_file + 1
    /\ IF files[next_file] = Directory
       THEN UNCHANGED << calls, server_data, config, now, core, pc, frame, img_c, sinks, frames,
                         stages, pushed, alerts, crash, img, processed, loop_start_time >>
       ELSE /\ processed' = Append(processed, next_file)
            /\ Yield(imread(files[next_file]))
    /\ UNCHANGED attempts

\* the glob of a file:// url is through: get_image returns and the for loop ends
get_image_exhausted ==
    /\ source = "file"
    /\ pc = "AcquireFrame"
    /\ next_file > Len(files)
    /\ pc' = "Done"
    /\ UNCHANGED << calls, acquisition, server_data, config, img_c, now, core, frame, sinks,
                    frames, stages, pushed, alerts, crash >>

SourceInit ==
    /\ \E p \in SourceParamSet : MainInit(p)
    /\ NoCall

SourceNext ==
    \/ get_image_retry
    \/ get_image_yield
    \/ get_image_file
    \/ get_image_exhausted
    \/ LocateDial
    \/ StabilizeDial
    \/ DetectNeedle
    \/ ComputeValue
    \/ PublishValue
    \/ ValueWatchdog
    \/ Publish
    \/ SilenceWatchdog

SourceSpec == SourceInit /\ [][SourceNext]_vars

(* ---------------- vocabulary of the properties --------------------------- *)
Min(a, b) == IF a <= b THEN a ELSE b
LastK(s, k) == SubSeq(s, Len(s) - k + 1, Len(s))
Below(s, v) == Cardinality({ i \in DOMAIN s : s[i] < v })
Above(s, v) == Cardinality({ i \in DOMAIN s : s[i] > v })
Occurrences(s, v) == Cardinality({ i \in DOMAIN s : s[i] = v })
IsPrefix(s, t) == Len(s) <= Len(t) /\ s = SubSeq(t, 1, Len(s))

\* m is the median of the non-empty list s: the middle element by rank, or
\* the mean of the lower and the upper middle element
IsMedianOf(m, s) ==
    LET n == Len(s)
        h == n \div 2
    IN  IF n % 2 = 1
        THEN /\ \E i \in DOMAIN s : s[i] = m
             /\ Below(s, m) <= h
             /\ Above(s, m) <= h
        ELSE \E i, j \in DOMAIN s :
                /\ Below(s, s[i]) <= h - 1
                /\ n - Above(s, s[i]) >= h
                /\ Above(s, s[j]) <= h - 1
                /\ n - Below(s, s[j]) >= h
                /\ 2 * m = s[i] + s[j]

ThresholdsSet == ~IsNone(min_warn) /\ ~IsNone(max_warn)
\* the median m is at or below min_warn, or at or above max_warn
MedianOutOfRange(m) ==
    \/ ~IsNone(min_warn) /\ m <= ValDen * Val(min_warn)
    \/ ~IsNone(max_warn) /\ m >= ValDen * Val(max_warn)
ElapsedSinceAlert == now - last_warn_time
ElapsedSinceDetection == now - last_successful_detection_time
FrameFailed == error # ""
FrameOver == frames > 0 /\ pc \in { "SilenceWatchdog", "AcquireFrame", "Done" }

(* ---------------- C1 ------------------------------------------------------ *)
\* C1: any two consecutively emitted alerts, of either kind, are at least
\* warn_interval apart.  Hence of two out-of-range median samples less than
\* warn_interval apart exactly one alerts: the first one when no alert was
\* emitted before (and the clock has moved since main() started), and then
\* not the second one.
AlertsApart ==
    \A i \in 1..(Len(alerts) - 1) : alerts[i + 1].time - alerts[i].time >= warn_interval

OutOfRangeSample ==
    /\ pc = "ValueWatchdog"
    /\ pc' # "Crashed"
    /\ Len(values_lst') = median_filter_value_N
    /\ \E m \in 0..(ValDen * 270) : IsMedianOf(m, values_lst') /\ MedianOutOfRange(m)

C1_RateLimit ==
    /\ []AlertsApart
    /\ [][ OutOfRangeSample =>
             /\ (alerts = <<>> /\ now > 0) => Len(alerts') = 1
             /\ (alerts # <<>> /\ now - alerts[Len(alerts)].time < warn_interval)
                    => alerts' = alerts ]_vars

C1_Witness ==
    /\ Len(alerts) = 2
    /\ alerts[1].kind = "value"
    /\ alerts[2].kind = "no measurement"

(* ---------------- C2 ------------------------------------------------------ *)
ValueAlertEmitted ==
    /\ Len(alerts') = Len(alerts) + 1
    /\ alerts'[Len(alerts')].kind = "value"
    /\ alerts'[Len(alerts')].time = now
    /\ SubSeq(alerts', 1, Len(alerts)) = alerts

HistoryFullAndOutOfRange ==
    /\ Len(values_lst') = median_filter_value_N
    /\ \E m \in 0..(ValDen * 270) : IsMedianOf(m, values_lst') /\ MedianOutOfRange(m)

NoMeasurementEmitted ==
    /\ Len(alerts') = Len(alerts) + 1
    /\ alerts'[Len(alerts')].kind = "no measurement"
    /\ alerts'[Len(alerts')].time = now
    /\ SubSeq(alerts', 1, Len(alerts)) = alerts

\* C3 as stated: at the end of a frame, silence longer than
\* warn_no_detections_s and warn_interval elapsed (>=) since the last alert
\* give exactly one 'no measurement' alert.
C3_AsStated ==
    [][ (pc = "SilenceWatchdog"
           /\ ElapsedSinceDetection > warn_no_detections_s
           /\ ElapsedSinceAlert >= warn_interval) => NoMeasurementEmitted ]_vars

\* C3, amended: at the end of a frame exactly one 'no measurement' alert is
\* emitted iff the last successful detection is more than
\* warn_no_detections_s ago and the last alert MORE than warn_interval ago;
\* a successful detection sets the silence timer to the time of the success
\* and nothing else moves it, so every 'no measurement' alert comes more than
\* warn_no_detections_s after the last success (or the start).
NoMeasurementAfterSilence ==
    \A i \in DOMAIN alerts :
        alerts[i].kind = "no measurement" =>
            /\ alerts[i].time - alerts[i].value > warn_no_detections_s
            /\ alerts[i].value <= last_successful_detection_time

C3_SilenceWatchdogRule ==
    /\ []NoMeasurementAfterSilence
    /\ [][ /\ pc = "SilenceWatchdog" =>
                IF /\ ElapsedSinceDetection > warn_no_detections_s
                   /\ ElapsedSinceAlert > warn_interval
                THEN NoMeasurementEmitted /\ last_warn_time' = now
                ELSE alerts' = alerts /\ last_warn_time' = last_warn_time
           /\ (pc = "ValueWatchdog" /\ pc' # "Crashed") => last_successful_detection_time' = now
           /\ last_successful_detection_time' # last_successful_detection_time
                => pc = "ValueWatchdog"
           /\ pc # "SilenceWatchdog" => ~NoMeasurementEmitted ]_vars

\* a 'no measurement' alert, then a successful detection that reset the timer
C3_Witness ==
    /\ alerts # <<>>
    /\ alerts[Len(alerts)].kind = "no measurement"
    /\ last_successful_detection_time > alerts[Len(alerts)].time

(* ---------------- C4 ------------------------------------------------------ *)
Stages == { stages[i] : i \in DOMAIN stages }

\* C4: the dial history never holds more than N triples; once a frame's dial
\* is stabilized, for N > 1 each axis of (x, y, r) is the median of that axis
\* over the last min(count, N) raw triples of the dial-found frames, and for
\* N <= 1 (x, y, r) is the raw triple of the frame.
C4_DialStabilizer ==
    /\ Len(calibration_lst) <= median_filter_dial_position_N
    /\ "StabilizeDial" \in Stages =>
         LET count == Len(pushed)
             window == LastK(pushed, Min(count, median_filter_dial_position_N))
         IN  IF median_filter_dial_position_N > 1
             THEN /\ calibration_lst = window
                  /\ \A axis \in 1..3 : IsMedianOf(xyr[axis], Column(window, axis))
             ELSE xyr = pushed[count]

\* more dial-found frames than N, and a stabilized triple that is not the raw one
C4_Witness ==
    /\ "StabilizeDial" \in Stages
    /\ median_filter_dial_position_N > 1
    /\ Len(pushed) > median_filter_dial_position_N
    /\ xyr # pushed[Len(pushed)]
    /\ pushed[1] # pushed[2]

(* ---------------- C5 ------------------------------------------------------ *)
\* C5: the value history is appended to exactly once on every frame whose
\* needle angle was resolved (the oldest entries beyond M dropped), holds at
\* most M entries, and no step of a frame that ends in a DetectionError
\* changes it.
ValueHistoryBounded ==
    /\ Len(values_lst) <= median_filter_value_N
    /\ FrameFailed => "ValueWatchdog" \notin Stages
    /\ FrameOver => Occurrences(stages, "ValueWatchdog") = (IF FrameFailed THEN 0 ELSE 1)
    /\ (FrameOver /\ ~FrameFailed) => ~IsNone(needle_angle)

IsInstantValue(v, a) ==
    IF HasCalibration
    THEN (v - ValDen * Val(calibration.min_value))
             * (Val(calibration.max_angle) - Val(calibration.min_angle))
         = (a - ValDen * Val(calibration.min_angle))
             * (Val(calibration.max_value) - Val(calibration.min_value))
    ELSE v = a

\* every value handed to a value sink is the instantaneous value of the
\* frame's needle angle; the median exists only once the history holds M
\* entries, and every value alert has one
InstantValuePublished ==
    /\ \A i \in DOMAIN sent_values :
         /\ ~IsNone(needle_angle)
         /\ IsInstantValue(sent_values[i].value, Val(needle_angle))
    /\ ~IsNone(avg) => Len(values_lst) = median_filter_value_N
    /\ \A i \in DOMAIN alerts :
         alerts[i].kind = "value" => ~IsNone(avg)

\* C6: every value handed to a value sink is the instantaneous value of the
\* frame's needle angle, never the median; the median is computed only once
\* the history holds M entries and is used for the alert comparison only, so
\* no annotated frame carries it.
C6_AsStated ==
    /\ InstantValuePublished
    /\ IsNone(img_c)

\* every sink configured, the published value differs from the median, and
\* the annotated frame carries the median computed before this frame
C6_Witness ==
    /\ pc = "Publish"
    /\ Len(sent_values) = 3
    /\ ~IsNone(avg)
    /\ Val(avg) = Median(values_lst)
    /\ \A i \in DOMAIN sent_values : sent_values[i].value # Val(avg)
    /\ ~IsNone(img_c)

(* ---------------- C7 ------------------------------------------------------ *)
FullIteration == << "AcquireFrame", "LocateDial", "StabilizeDial", "DetectNeedle",
                    "ComputeValue", "PublishValue", "ValueWatchdog", "Publish",
                    "SilenceWatchdog" >>
DialFailedIteration == << "AcquireFrame", "LocateDial", "Publish", "SilenceWatchdog" >>
NeedleFailedIteration == << "AcquireFrame", "LocateDial", "StabilizeDial", "DetectNeedle",
                            "Publish", "SilenceWatchdog" >>

IterationPaths == { FullIteration, DialFailedIteration, NeedleFailedIteration }

\* the steps taken so far are those of one of the three paths, in order; a
\* failed frame has no value, hands nothing to a value sink and goes on at
\* Publish, from where alone it can end main()
IterationOrder ==
    /\ \E path \in IterationPaths : IsPrefix(stages, path)
    /\ (frames > 0 /\ pc \notin { "AcquireFrame", "Done", "Crashed" }) =>
         \E path \in IterationPaths : IsPrefix(Append(stages, pc), path)
    /\ error = NoCircles => IsPrefix(stages, DialFailedIteration)
    /\ error \in NeedleErrors => IsPrefix(stages, NeedleFailedIteration)
    /\ (~FrameFailed /\ "Publish" \in Stages) => IsPrefix(stages, FullIteration)
    /\ FrameFailed =>
         /\ sent_values = <<>>
         /\ IsNone(value)
         /\ pc \in { "Publish", "SilenceWatchdog", "AcquireFrame", "Done", "Crashed" }
         /\ pc = "Crashed" => stages[Len(stages)] = "Publish"
         /\ (FrameOver /\ port) => sent_img
    /\ (FrameOver /\ pc # "SilenceWatchdog") => stages \in IterationPaths

\* C7: the steps of an iteration run in the order AcquireFrame, LocateDial,
\* StabilizeDial, DetectNeedle, ComputeValue, Publish; a failed LocateDial
\* skips StabilizeDial, DetectNeedle and ComputeValue, a failed DetectNeedle
\* skips ComputeValue; a failed frame hands nothing to a value sink, yet its
\* annotated frame is published and the loop goes on with the next frame:
\* no failed frame ends main().
C7_AsStated ==
    /\ IterationOrder
    /\ FrameFailed => pc # "Crashed"

\* a frame whose needle was not found: annotated frame posted, loop goes on
C7_Witness ==
    /\ pc = "AcquireFrame"
    /\ stages = NeedleFailedIteration
    /\ error \in NeedleErrors
    /\ port
    /\ sent_img
    /\ frames < MaxFrames

(* ---------------- C8 ------------------------------------------------------ *)
\* C8: once the loop runs, no failure inside an iteration ends it: main() is
\* never left by an exception.
C8_LoopNeverAborted == pc # "Crashed"

(* ---------------- C9 ------------------------------------------------------ *)
\* C9: when the circle detector returned no circle the frame ends in
\* DetectionError('No circles found') without a dial geometry, and the debug
\* images of the frame, hence any bundle sent for it, hold the raw image and
\* the dial overlay.
C9_DialNotFound ==
    /\ ("LocateDial" \in Stages /\ circles = <<>>) =>
         /\ error = NoCircles
         /\ IsNone(xyr)
         /\ { "raw", "detect_dial_debug_img" } \subseteq debug_imgs
         /\ ~IsNone(sent_debug) =>
              { "raw", "detect_dial_debug_img" } \subseteq Val(sent_debug)
    /\ error = NoCircles => circles = <<>>

C9_Witness ==
    /\ error = NoCircles
    /\ ~IsNone(sent_debug)
    /\ Val(sent_debug) = { "raw", "detect_dial_debug_img", "final_img" }

(* ---------------- C10 ----------------------------------------------------- *)
\* C10: for k >= 1 circles the raw (x, y, r) of the frame is the
\* coordinate-wise arithmetic mean of the k circles: k times the coordinate
\* is the sum of the circles' coordinates.
C10_DialIsMean ==
    (pc = "StabilizeDial" /\ Len(circles) >= 1) =>
        \A axis \in 1..3 :
            Len(circles) * xyr[axis] = PixDen * SumSeq(Column(circles, axis))

C10_Witness ==
    /\ pc = "StabilizeDial"
    /\ Len(circles) = 2
    /\ circles[1] # circles[2]

(* ---------------- C11 ----------------------------------------------------- *)
Max(a, b) == IF a >= b THEN a ELSE b
SqDist(x1, y1, x2, y2) == (x2 - x1) * (x2 - x1) + (y2 - y1) * (y2 - y1)
Sq(n) == n * n
Returned(f) == call = f /\ ~IsNone(ret)
SwapAll(lines) == [i \in DOMAIN lines |-> Swapped(lines[i])]

\* the segment is at least min_length*r long, the smaller of its endpoint
\* distances d1 lies strictly inside the hub band and the larger one d2
\* strictly inside the rim band (compared as squares)
Qualifies(line, a) ==
    LET e1 == SqDist(a.x, a.y, line[1], line[2])
        e2 == SqDist(a.x, a.y, line[3], line[4])
        d1 == Min(e1, e2)
        d2 == Max(e1, e2)
        h == Sq(Hundred)
    IN  /\ h * SqDist(line[1], line[2], line[3], line[4]) >= Sq(min_length * a.r)
        /\ Sq(a.bands.r_inner_min * a.r) < h * d1
        /\ h * d1 < Sq(a.bands.r_inner_max * a.r)
        /\ Sq(a.bands.r_outer_min * a.r) < h * d2
        /\ h * d2 < Sq(a.bands.r_outer_max * a.r)

\* C11: filter_lines_for_needle returns exactly the segments that are at
\* least min_length*r long and whose sorted endpoint distances (d1, d2)
\* satisfy r_inner_min*r < d1 < r_inner_max*r and r_outer_min*r < d2 <
\* r_outer_max*r, all bounds strict, in the order of the input; with the
\* endpoints of every segment exchanged it returns the same segments.
C11_FilterLines ==
    Returned("filter_lines_for_needle") =>
        LET Test(line) == Qualifies(line, args)
        IN  /\ Val(ret) = SelectSeq(args.lines, Test)
            /\ filter_lines_for_needle(SwapAll(args.lines), args.x, args.y, args.r, args.bands)
                 = SwapAll(Val(ret))

\* a segment that ends on the outer bound of the rim band is dropped, the
\* shortest needle, far endpoint first, is kept
C11_Witness ==
    /\ Returned("filter_lines_for_needle")
    /\ args.bands = DefaultBands
    /\ args.lines = << RimTooFar, Swapped(ShortestNeedle) >>
    /\ Val(ret) = << Swapped(ShortestNeedle) >>

(* ---------------- C12 ----------------------------------------------------- *)
\* the lines get_needle_angle was called with, when there are any
CalledWithLines == Returned("get_needle_angle") /\ ~IsNone(args.lines)

\* C12: the angle does not depend on the order of the endpoints: with the
\* endpoints of every segment exchanged get_needle_angle returns the same,
\* also for segments whose endpoints are equally far from the center.
C12_SwapSymmetric ==
    CalledWithLines =>
        get_needle_angle(Some(SwapAll(Val(args.lines))), args.x, args.y, args.r, args.bands)
            = Val(ret)

(* ---------------- C15 ----------------------------------------------------- *)
\* the number of qualifying candidates among the lines of the call
Candidates ==
    LET Test(line) == Qualifies(line, args)
    IN  SelectSeq(Val(args.lines), Test)

\* C15: get_needle_angle has exactly one outcome, decided in this order: no
\* lines from the line detector give the no-lines error; else more than 75
\* qualifying candidates give the too-many error (75 still give an angle);
\* else no candidate gives the no-needle error; else an angle is returned.
\* The three errors differ from each other and come without an angle.
C15_Outcome ==
    /\ Cardinality(NeedleErrors) = 3
    /\ Returned("get_needle_angle") =>
         /\ Val(ret).error \in NeedleErrors \cup { "" }
         /\ Val(ret).error = "" <=> ~IsNone(Val(ret).angle)
         /\ Val(ret).error =
              IF IsNone(args.lines) THEN NoLines
              ELSE IF Len(Candidates) > MaxCandidates THEN TooMany
              ELSE IF Len(Candidates) = 0 THEN NoNeedle
              ELSE ""

\* 76 lines from the detector, exactly 75 of them candidates: an angle
C15_Witness ==
    /\ Returned("get_needle_angle")
    /\ ~IsNone(args.lines)
    /\ Len(Val(args.lines)) = MaxCandidates + 1
    /\ Len(Candidates) = MaxCandidates
    /\ ~IsNone(Val(ret).angle)

(* ---------------- C16 ----------------------------------------------------- *)
\* the endpoint of the line that is farther from the center of the call
FartherEndpoint(line) ==
    IF SqDist(args.x, args.y, line[1], line[2]) > SqDist(args.x, args.y, line[3], line[4])
    THEN << line[1], line[2] >>
    ELSE << line[3], line[4] >>
EndpointsDiffer(line) ==
    SqDist(args.x, args.y, line[1], line[2]) # SqDist(args.x, args.y, line[3], line[4])

\* the angle of an endpoint on one of the four half-axes through the center,
\* image coordinates: y grows downwards, so left of the center is a quarter
\* turn clockwise from straight down
ClockwiseFromDown(pt) ==
    IF pt[1] = args.x /\ pt[2] > args.y THEN 0
    ELSE IF pt[1] < args.x /\ pt[2] = args.y THEN Pi \div 2
    ELSE IF pt[1] = args.x /\ pt[2] < args.y THEN Pi
    ELSE 3 * (Pi \div 2)

AngleReturned == Returned("get_needle_angle") /\ ~IsNone(Val(ret).angle)

\* C16: the angle of every candidate is the direction of its endpoint farther
\* from the center, 0 straight down and growing clockwise, in [0, 2*pi); so
\* is the angle returned; one needle straight down from the hub band to the
\* rim band gives the angle 0.
C16_AngleRange ==
    AngleReturned =>
        /\ \A i \in DOMAIN Candidates :
             LET ang == LineAngle(Candidates[i], args.x, args.y)
             IN  /\ 0 <= ang /\ ang < 2 * Pi
                 /\ EndpointsDiffer(Candidates[i])
                      => ang = ClockwiseFromDown(FartherEndpoint(Candidates[i]))
        /\ Val(ret).angle[1].den > 0
        /\ 0 <= Val(ret).angle[1].num
        /\ Val(ret).angle[1].num < 2 * Pi * Val(ret).angle[1].den
        /\ Val(args.lines) \in { << DownNeedle >>, << Swapped(DownNeedle) >> }
             => Val(ret).angle[1].num = 0

\* a needle to the right, for which arctan2 gives -pi/2: three quarter turns
C16_Witness ==
    /\ AngleReturned
    /\ Val(args.lines) = << RightNeedle >>
    /\ Val(ret).angle[1].num = 3 * (Pi \div 2) * Val(ret).angle[1].den

(* ---------------- C17 ----------------------------------------------------- *)
CandidateAngles == [i \in DOMAIN Candidates |-> LineAngle(Candidates[i], args.x, args.y)]
CandidateLengths == [i \in DOMAIN Candidates |-> LineLength(Candidates[i])]
CandidateMoments == [i \in DOMAIN Candidates |-> CandidateLengths[i] * CandidateAngles[i]]

\* C17: with 1 to 75 candidates the angle returned is sum(length*angle) /
\* sum(length), the arithmetic mean of the wrapped angles weighted by the
\* lengths; it lies between the smallest and the largest candidate angle;
\* two candidates of equal length at e and 2*pi - e give pi.
C17_WeightedMean ==
    AngleReturned =>
        LET a == Val(ret).angle[1]
            n == Len(Candidates)
        IN  /\ 1 <= n /\ n <= MaxCandidates
            /\ a.num * SumRange(CandidateLengths, 1, n) = a.den * SumRange(CandidateMoments, 1, n)
            /\ \E i \in 1..n : CandidateAngles[i] * a.den <= a.num
            /\ \E i \in 1..n : CandidateAngles[i] * a.den >= a.num
            /\ (/\ n = 2
                /\ CandidateLengths[1] = CandidateLengths[2]
                /\ CandidateAngles[1] # 0
                /\ CandidateAngles[1] + CandidateAngles[2] = 2 * Pi)
                 => a.num = Pi * a.den

\* needles of equal length to the left and to the right: straight up
C17_Witness ==
    /\ AngleReturned
    /\ Val(args.lines) = << LeftNeedle, RightNeedle >>
    /\ Val(ret).angle[1].num = Pi * Val(ret).angle[1].den

AllBoundsAbsent == \A k \in DOMAIN calibration : IsNone(calibration[k])
StartedWithoutUnit == unit \in { MainDefaultUnit, ParserDefaultUnit }

\* C14: when all four calibration bounds are absent and the program was
\* started without a unit, by a call of main or by the command line, every
\* value published for a frame is the raw needle angle of that frame in
\* degrees, and the unit published with it is "degree".  The command line
\* hands unit=None to main, and the status then carries the text None.
C14_AsStated ==
    (AllBoundsAbsent /\ StartedWithoutUnit) =>
        \A i \in DOMAIN sent_values :
            /\ sent_values[i].value = Val(needle_angle)
            /\ sent_values[i].sink = "port" => sent_values[i].unit = "degree"

\* a frame published by a program started without calibration and without
\* unit through the command line
C14_Witness ==
    /\ AllBoundsAbsent
    /\ unit = ParserDefaultUnit
    /\ \E i \in DOMAIN sent_values :
         /\ sent_values[i].sink = "port"
         /\ sent_values[i].delivered
         /\ sent_values[i].value = Val(needle_angle)
         /\ sent_values[i].unit = "None"

(* ---------------- C18 ---------------------------------------------------- *)
\* C18 as stated: when a frame that ended in a DetectionError is over, the
\* silence timer's reference point is the time of that frame.
C18_AsStated == (FrameFailed /\ FrameOver) => last_successful_detection_time = now

\* C18, amended: a frame that ends in a DetectionError leaves the silence
\* timer's reference point where it was, in the step that raises the error
\* and in every later step of that frame; the reference point moves only at
\* the end of a successful detection, to the time of that frame.  A 'no
\* measurement' alert at the end of a failed frame therefore counts the
\* silence from the last success (or the start), more than
\* warn_no_detections_s before.
C18_FailedFrameKeepsReference ==
    [][ /\ error' # "" => last_successful_detection_time' = last_successful_detection_time
        /\ last_successful_detection_time' # last_successful_detection_time =>
              /\ error = ""
              /\ ~IsNone(value)
              /\ last_successful_detection_time' = now
        /\ (FrameFailed /\ NoMeasurementEmitted) =>
              /\ alerts'[Len(alerts')].value = last_successful_detection_time
              /\ now - last_successful_detection_time > warn_no_detections_s ]_vars

\* a failed frame is over, later than a success; the reference point is
\* still the time of the success and the silence alert has come
C18_Witness ==
    /\ FrameFailed /\ FrameOver
    /\ 0 < last_successful_detection_time
    /\ last_successful_detection_time < now
    /\ alerts # <<>>
    /\ alerts[Len(alerts)].kind = "no measurement"
    /\ alerts[Len(alerts)].value = last_successful_detection_time

(* ---------------- C19 ---------------------------------------------------- *)
NeedleImages == { "after_threshold_img", "detect_needle_debug_img" }
FourImages == { "raw", "detect_dial_debug_img" } \cup NeedleImages
BundleSent == ~IsNone(sent_debug)
FlagSet == is_debug = Some(TRUE)
PublishDone == FrameOver /\ "Publish" \in Stages

WorkerSteps == { "LocateDial", "StabilizeDial", "DetectNeedle", "ComputeValue",
                 "PublishValue", "ValueWatchdog", "Publish", "SilenceWatchdog" }
ServerWrote == server_data' # server_data

\* C20: between the end of an iteration and the yield of the next frame,
\* however long the frame source blocks or retries, the dial history, the
\* value history, the time of the last alert, the time of the last
\* successful detection and the counter of detection errors keep their
\* values; they change only in steps of the worker inside an iteration, and
\* no step in which a thread of the HTTP server writes server_data changes
\* them.
C20_CoreOwnedByWorker ==
    [][ /\ pc = "AcquireFrame" => core' = core
        /\ core' # core => (pc \in WorkerSteps /\ pc' # pc)
        /\ ServerWrote => core' = core ]_vars

\* the second frame is yielded later than the first one ended, with a
\* success; the histories hold the first frame and the server has handled
\* the worker's posts and a request for the debug page
C20_Witness ==
    /\ frames = 2
    /\ stages = << "AcquireFrame" >>
    /\ values_lst # <<>>
    /\ calibration_lst # <<>>
    /\ 0 < last_successful_detection_time
    /\ last_successful_detection_time < now
    /\ { "data", "img", "last_time_debug_was_requested" } \subseteq server_data

(* ---------------- C28 ---------------------------------------------------- *)
NeedleFailed == error \in NeedleErrors
DialNotFound == error = NoCircles

\* C28: for N > 1 the raw (x, y, r) of every frame whose dial is found is
\* pushed into the dial history, whether the needle is then found or not:
\* when the needle detection of a frame has failed, the newest entry of the
\* history is the raw triple of that frame.  No step of a frame without dial
\* changes the history, no step but the push changes it, and the push
\* keeps the newest entries up to N: the history is never cleared and never
\* gets shorter.
C28_DialHistory ==
    /\ [](NeedleFailed /\ median_filter_dial_position_N > 1 =>
            /\ calibration_lst # <<>>
            /\ calibration_lst[Len(calibration_lst)] = pushed[Len(pushed)]
            /\ pushed[Len(pushed)] = detect_dial(circles))
    /\ [][ /\ DialNotFound' => calibration_lst' = calibration_lst
           /\ Len(calibration_lst') >= Len(calibration_lst)
           /\ calibration_lst' # calibration_lst =>
                 /\ pc = "StabilizeDial"
                 /\ median_filter_dial_position_N > 1
                 /\ calibration_lst'[Len(calibration_lst')] = xyr
                 /\ Len(calibration_lst') =
                       Min(Len(calibration_lst) + 1, median_filter_dial_position_N)
                 /\ SubSeq(calibration_lst', 1, Len(calibration_lst') - 1) =
                       LastK(calibration_lst, Len(calibration_lst') - 1) ]_vars

\* the needle was not found on a frame whose dial was found, the history
\* being full already: the raw triple of the frame is its newest entry and
\* differs from the stabilized one
C28_Witness ==
    /\ NeedleFailed /\ FrameOver
    /\ median_filter_dial_position_N > 1
    /\ Len(pushed) > median_filter_dial_position_N
    /\ Len(calibration_lst) = median_filter_dial_position_N
    /\ calibration_lst[Len(calibration_lst)] = pushed[Len(pushed)]
    /\ xyr # pushed[Len(pushed)]
    /\ IsNone(value)

(* ---------------- C25 ---------------------------------------------------- *)
\* the thresholding operations among the operations that were applied
Thresholdings(ops) == SelectSeq(ops, LAMBDA op : op \in ThresholdOperations)

\* C25 as stated: whatever mode apply_threshold is called with, absent or a
\* member of ThresholdMode, exactly one thresholding operation is applied:
\* binary-inverse for absent and binary, zero-below-threshold for gray,
\* adaptive Gaussian for gauss, Otsu after a Gaussian blur for otsu.
C25_AsStated ==
    Returned("apply_threshold") =>
        /\ Len(Thresholdings(Val(ret))) = 1
        /\ args.threshold_mode \in { None, Some("binary") } => Val(ret) = << THRESH_BINARY_INV >>
        /\ args.threshold_mode = Some("gray") => Val(ret) = << THRESH_TOZERO >>
        /\ args.threshold_mode = Some("gauss") => Val(ret) = << ADAPTIVE_THRESH_GAUSSIAN_C >>
        /\ args.threshold_mode = Some("otsu") => Val(ret) = << GaussianBlur, THRESH_OTSU >>

\* the member none: the image is returned as it came
C25_Witness ==
    /\ Returned("apply_threshold")
    /\ args.threshold_mode = Some("none")
    /\ Val(ret) = <<>>

(* ---------------- C24 ---------------------------------------------------- *)
KnownPlaceholders == { "value", "time" }
UnitSuffix == IF IsNone(unit) THEN "" ELSE Val(unit)

\* msg is the template with $value replaced by the median a and the unit,
\* $time by the time t, and every literal text as it is
IsTemplateFilled(msg, a, t) ==
    /\ Len(msg) = Len(warning_template)
    /\ \A j \in DOMAIN warning_template :
          IF warning_template[j].kind = "text"
          THEN msg[j] = warning_template[j]
          ELSE IF warning_template[j].name = "value"
          THEN msg[j] = [kind |-> "value", number |-> a, unit |-> UnitSuffix]
          ELSE msg[j] = [kind |-> "time", at |-> t]

\* C24: a template with a placeholder other than value and time is rejected
\* before the first frame is asked for, and only such a template is; no frame
\* is processed and no alert is sent then.  Every value alert handed to
\* send_warning is the template with value (the median, followed by the
\* unit when one is set) and time substituted and nothing else changed.
C24_TemplateChecked ==
    /\ pc = "Rejected" <=> ~(Placeholders(warning_template) \subseteq KnownPlaceholders)
    /\ pc = "Rejected" => (frames = 0 /\ stages = <<>> /\ alerts = <<>> /\ crash = "KeyError")
    /\ \A i \in DOMAIN alerts :
          alerts[i].kind = "value" =>
              IsTemplateFilled(alerts[i].msg, alerts[i].value, alerts[i].time)

\* a value alert of the default template, with the unit
C24_Witness ==
    /\ warning_template = MainDefaultTemplate
    /\ alerts # <<>>
    /\ alerts[1].kind = "value"
    /\ alerts[1].msg = << Text("Pressure is "),
                          [kind |-> "value", number |-> alerts[1].value, unit |-> "bar"],
                          Text(" at "),
                          [kind |-> "time", at |-> alerts[1].time],
                          Text("!") >>

(* ---------------- C30 ---------------------------------------------------- *)
Forwarded(alert) == alert.xmpp # <<>>
MayForward == ~no_warnings /\ ~IsNone(xmpp_recipients) /\ xmpp_recipients # Some(<<>>)

\* C30: a 'no measurement' alert is never forwarded to XMPP recipients,
\* whatever no_warnings and xmpp_recipients are; a value alert is forwarded,
\* to the configured recipients, iff no_warnings is false and the list of
\* recipients is given and not empty.
C30_Forwarding ==
    \A i \in DOMAIN alerts :
        /\ alerts[i].kind = "no measurement" => ~Forwarded(alerts[i])
        /\ alerts[i].kind = "value" =>
              /\ Forwarded(alerts[i]) <=> MayForward
              /\ Forwarded(alerts[i]) => alerts[i].xmpp = Val(xmpp_recipients)

\* with recipients configured and warnings on: a value alert that was
\* forwarded, then a 'no measurement' alert that was not
C30_Witness ==
    /\ MayForward
    /\ Len(alerts) >= 2
    /\ alerts[1].kind = "value" /\ alerts[1].xmpp = Recipients
    /\ alerts[2].kind = "no measurement" /\ alerts[2].xmpp = <<>>


(* ---------------- C21: acquisition errors ------------------------------- *)
\* an iteration of the main loop has begun
InLoop == frames > 0

\* C21: every pair that reaches the main loop carries an acquired image,
\* and acquisition never ends main(): no iteration begins on a pair without
\* an image, and none ends in the AttributeError such a pair raises.
C21_AsStated == InLoop => img = Decoded /\ crash # "AttributeError"

\* a matched file that is no image was yielded as (timestamp, None) and the
\* loop is left, the file after it unread
C21_Witness ==
    /\ source = "file"
    /\ img = PyNone
    /\ pc = "Crashed"
    /\ crash = "AttributeError"
    /\ next_file <= Len(files)

(* ---------------- C22: the end of the loop ------------------------------ *)
\* the matched paths that are files, in the order of the glob
RegularPaths(fs) == SelectSeq([i \in 1..Len(fs) |-> i], LAMBDA i : fs[i] # Directory)
LoopOver == pc \in { "Done", "Crashed" }

\* C22: with a file:// source the loop ends only once every matched regular
\* file was handed to it, each once and in the order of the glob; with an
\* HTTP or a camera source the loop never ends.
C22_AsStated ==
    /\ source = "file" /\ LoopOver => processed = RegularPaths(files)
    /\ source \in { "http", "camera" } => ~LoopOver

\* a camera loop that has ended
C22_Witness == source = "camera" /\ LoopOver

(* ---------------- C23: the rate limiter --------------------------------- *)
IterationStarts == frames' = frames + 1
Limited == ~IsNone(min_measurement_interval) /\ min_measurement_interval # Some(0)

\* C23: the step that starts an iteration is the only one that notes a start
\* time; with min_measurement_interval set the start is the later of the time
\* the frame was yielded at and the previous start plus the interval, so two
\* consecutive starts are at least the interval apart; the first iteration
\* starts when its frame is yielded; the step touches no core state.
C23_RateLimiter ==
    [][ /\ loop_start_time' # loop_start_time => IterationStarts
        /\ IterationStarts =>
              /\ pc = "AcquireFrame"
              /\ loop_start_time' = now'
              /\ frames = 0 => now' = now
              /\ Limited /\ frames > 0 =>
                    /\ loop_start_time' - loop_start_time >= Val(min_measurement_interval)
                    /\ now' = Max(now, loop_start_time + Val(min_measurement_interval))
              /\ ~Limited => now' = now
              /\ UNCHANGED core ]_vars

\* the second file of a glob, read at once, is processed an interval after the first
C23_Witness ==
    /\ source = "file"
    /\ Limited
    /\ frames = 2
    /\ pc = "LocateDial"
    /\ loop_start_time = Val(min_measurement_interval)
    /\ now = loop_start_time

(* ---------------- C26: the detection-error counter ---------------------- *)
FrameFails == error = "" /\ error' # ""

\* C26: debug_export_number is 0 before the first frame and stays in 0..9;
\* a frame that ends in a DetectionError adds 1 to it modulo 10, and no
\* other step changes it.
C26_ErrorCounter ==
    /\ [](debug_export_number \in 0..9)
    /\ [](frames = 0 => debug_export_number = 0)
    /\ [][ /\ FrameFails => debug_export_number' = (debug_export_number + 1) % 10
           /\ ~FrameFails => debug_export_number' = debug_export_number ]_vars

\* the tenth failed frame in a row: the counter is back at 0
C26_Witness ==
    /\ frames = ManyFiles
    /\ error # ""
    /\ values_lst = <<>>
    /\ Len(processed) = ManyFiles
    /\ debug_export_number = 0


(* ---------------- C27: silence while no frame arrives ------------------- *)
WaitingForFrame == pc = "AcquireFrame"

\* C27: no step taken while the loop waits for its next frame, a failed
\* attempt of the source or the start of the iteration, emits an alert or
\* moves the time of the last alert, whatever the clock shows; an alert is
\* appended only by the two watchdogs inside an iteration, the 'no
\* measurement' alert only by the check at the end of an iteration.
C27_NoAlertWithoutFrame ==
    [][ /\ WaitingForFrame => alerts' = alerts /\ last_warn_time' = last_warn_time
        /\ alerts' # alerts => frames > 0 /\ pc \in { "ValueWatchdog", "SilenceWatchdog" }
        /\ NoMeasurementEmitted => pc = "SilenceWatchdog" /\ pc' = "AcquireFrame" ]_vars

\* an HTTP source keeps failing after a frame without a reading: the silence
\* and the time since the last alert are past their limits, no alert was sent
C27_Witness ==
    /\ source = "http"
    /\ WaitingForFrame
    /\ attempts = MaxAttempts
    /\ frames > 0
    /\ ElapsedSinceDetection > warn_no_detections_s
    /\ ElapsedSinceAlert > warn_interval
    /\ alerts = <<>>

(* ---------------- C29: the alert is repeated ---------------------------- *)
LastAlert == alerts[Len(alerts)]
\* the last alert is a 'no measurement' alert and no detection succeeded since
SilenceStands ==
    /\ alerts # <<>>
    /\ LastAlert.kind = "no measurement"
    /\ LastAlert.value = last_successful_detection_time

\* C29: a 'no measurement' alert sets last_warn_time to the time of the
\* alert and leaves last_successful_detection_time alone; at the end of an
\* iteration with no successful detection since the previous 'no
\* measurement' alert, the alert is emitted again exactly when more than
\* warn_interval has passed since that alert; when it is not emitted although
\* more than warn_interval has passed since a 'no measurement' alert, a
\* detection has succeeded after that alert.
C29_RepeatedAlert ==
    [][ /\ NoMeasurementEmitted =>
              /\ last_warn_time' = now
              /\ last_successful_detection_time' = last_successful_detection_time
              /\ alerts'[Len(alerts')].value = last_successful_detection_time
        /\ pc = "SilenceWatchdog" /\ SilenceStands =>
              /\ FrameFailed
              /\ last_warn_time = LastAlert.time
              /\ NoMeasurementEmitted <=> ElapsedSinceAlert > warn_interval
        /\ ( /\ pc = "SilenceWatchdog"
             /\ alerts # <<>>
             /\ LastAlert.kind = "no measurement"
             /\ now - LastAlert.time > warn_interval
             /\ ~NoMeasurementEmitted ) =>
                last_successful_detection_time >= LastAlert.time ]_vars

\* two 'no measurement' alerts in a row for the same silence, more than
\* warn_interval apart
C29_Witness ==
    /\ Len(alerts) >= 2
    /\ SilenceStands
    /\ alerts[Len(alerts) - 1].kind = "no measurement"
    /\ alerts[Len(alerts) - 1].value = LastAlert.value
    /\ LastAlert.time - alerts[Len(alerts) - 1].time > warn_interval

====
